---- MODULE Spec2Model ----
(***************************************************************************)
(* Model of the generic entity repository (BaseRepository) over a          *)
(* DynamoDB table, together with the document client's marshalling and     *)
(* the application error classes it raises.                                *)
(*                                                                         *)
(* One repository instance (entity kind "Product") over one table.  Every  *)
(* action of Spec is one whole repository call issued while no other call  *)
(* is in flight: the call reads the clock, sends its command to the store, *)
(* and maps the store's answer to a return value or a thrown error.        *)
(* ListingSpec adds the listing operations; ConcSpec has several callers   *)
(* whose calls are in flight at the same time; ExprSpec keeps the update   *)
(* expression each update builds.  FrontSpec is the frontend: the useAsync *)
(* hook and the ProtectedRoute component.                                  *)
(***************************************************************************)
EXTENDS Integers, Sequences, FiniteSets, TLC

(***************************************************************************)
(* Bounds of the model.                                                    *)
(***************************************************************************)
\* largest reading of the millisecond clock
MaxClock == 1
\* milliseconds per second in the modelled ISO-8601 string (scaled down)
MsPerSec == 2
\* number of items one page of a Scan or Query answer holds (the store's
\* 1 MB page, scaled down)
PageItems == 1
\* largest limit handed to getAll
MaxLimit == 2
\* number of callers whose calls may be in flight at the same time
NumCallers == 2
\* number of times execute of one useAsync hook is invoked
MaxFetches == 3

(***************************************************************************)
(* Values.                                                                 *)
(* A JavaScript object is a function from its own property names to        *)
(* values.  Text attributes are strings, "" being the empty string; Null   *)
(* is JavaScript null.  A timestamp is the ISO-8601 string of a clock      *)
(* reading, kept as its fixed-width fields <<seconds, milliseconds>>,      *)
(* which compare lexicographically as the strings do.                      *)
(***************************************************************************)
Null == "<null>"

Ids == {"p1", "p2"}

NameValues == {"", "a"}

CategoryValues == {"x"}

TimestampFields == {"createdAt", "updatedAt"}

toISOString(t) == <<t \div MsPerSec, t % MsPerSec>>

\* order of two ISO-8601 strings (lexicographic on the fixed-width fields)
IsoLeq(a, b) == a[1] < b[1] \/ (a[1] = b[1] /\ a[2] <= b[2])

\* the timestamp a caller may put in a payload: later than every reading
CallerTimestamps == {toISOString(MaxClock + 1)}

entityName == "Product"

\* the global secondary indexes of the products table and their partition keys
GlobalSecondaryIndexes == "category-index" :> "category"

(***************************************************************************)
(* Document client marshalling (convertEmptyValues: true).                 *)
(* A stored attribute is a DynamoDB AttributeValue: [S |-> string] or      *)
(* [NULL |-> TRUE].                                                        *)
(***************************************************************************)
convertToAttr(data) ==
    IF data = Null \/ data = "" THEN [NULL |-> TRUE] ELSE [S |-> data]

\* an ISO-8601 string is never empty, so a timestamp is always an S attribute
marshall(item) ==
    [f \in DOMAIN item |->
        IF f \in TimestampFields THEN [S |-> item[f]] ELSE convertToAttr(item[f])]

convertToNative(attr) ==
    IF "NULL" \in DOMAIN attr THEN Null ELSE attr.S

unmarshall(stored) ==
    [f \in DOMAIN stored |-> convertToNative(stored[f])]

(***************************************************************************)
(* Application errors.  A message is the sequence of the pieces of its     *)
(* template string.                                                        *)
(***************************************************************************)
NotFoundError(resource, id) ==
    [name          |-> "NotFoundError",
     message       |-> IF id # "" THEN <<resource, " with ID '", id, "' not found">>
                                  ELSE <<resource, " not found">>,
     statusCode    |-> 404,
     code          |-> "NOT_FOUND",
     details       |-> <<resource, id>>,
     isOperational |-> TRUE]

DatabaseError(message) ==
    [name          |-> "DatabaseError",
     message       |-> message,
     statusCode    |-> 500,
     code          |-> "DATABASE_ERROR",
     details       |-> <<>>,
     isOperational |-> FALSE]

\* the classes derived from AppError
AppErrorClasses == {"NotFoundError", "DatabaseError"}

isOperationalError(error) ==
    IF error.name \in AppErrorClasses THEN error.isOperational ELSE FALSE

(***************************************************************************)
(* State.                                                                  *)
(*   store : the table, a function from the primary keys present to the    *)
(*           stored (marshalled) items                                     *)
(*   clock : the current reading of the millisecond clock                  *)
(*   call  : the last repository call: its operation and id argument, the  *)
(*           id named by the object it was given ("" when none), the clock *)
(*           reading it took, the commands it sent, and how it ended       *)
(*   flight: for each concurrent caller, its call: not issued yet (idle),  *)
(*           issued and on its way to the store (sent), or answered (done) *)
(*   built : the update expression the last update built, with the payload *)
(*           and the insertion order of its keys                           *)
(*   hook  : the three state cells of one useAsync hook                    *)
(*   effect: whether the hook's mount effect is still to run               *)
(*   fetches: the invocations of the hook's execute, in the order started  *)
(*   auth  : what useAuth() gives: the user and the loading flag           *)
(*   location: the router's current location                               *)
(***************************************************************************)
VARIABLES store, clock, call, flight, built, hook, effect, fetches, auth, location

frontend == <<hook, effect, fetches, auth, location>>

vars == <<store, clock, call, flight, built, frontend>>

Callers == 1..NumCallers

Idle == [phase |-> "idle"]

(***************************************************************************)
(* The store's commands.  Each answers with the table afterwards, the      *)
(* error name ("" when the command succeeded) and the command's output.    *)
(* fault: the round trip fails for a reason other than a condition         *)
(* (throttling, network); the command is then not applied.                 *)
(***************************************************************************)
ConditionalCheckFailed == "ConditionalCheckFailedException"

ServiceFailure == "ServiceUnavailable"

ValidationFailure == "ValidationException"

Answer(table, error, output) ==
    [table |-> table, error |-> error, output |-> output]

\* GetCommand { Key: { id } }
GetCommand(table, id, fault) ==
    IF fault THEN Answer(table, ServiceFailure, <<>>)
    ELSE IF id \in DOMAIN table THEN Answer(table, "", <<unmarshall(table[id])>>)
    ELSE Answer(table, "", <<>>)

\* PutCommand { Item, ConditionExpression: attribute_not_exists(id) }
\* conditional: FALSE is a PutCommand without the ConditionExpression
PutCommand(table, Item, conditional, fault) ==
    IF fault THEN Answer(table, ServiceFailure, <<>>)
    ELSE IF conditional /\ Item.id \in DOMAIN table
         THEN Answer(table, ConditionalCheckFailed, <<>>)
    ELSE Answer([k \in DOMAIN table \cup {Item.id} |->
                    IF k = Item.id THEN marshall(Item) ELSE table[k]],
                "", <<>>)

\* UpdateCommand { Key: { id }, UpdateExpression: SET ..., ConditionExpression:
\* attribute_exists(id), ReturnValues: ALL_NEW }; assignments maps each
\* attribute name of the SET clause to its (native) value.  Without the
\* condition (conditional = FALSE) the store creates a missing item from the
\* key and the assignments.  The store rejects an assignment to the key
\* attribute.
UpdateCommand(table, id, assignments, conditional, fault) ==
    IF fault THEN Answer(table, ServiceFailure, <<>>)
    ELSE IF "id" \in DOMAIN assignments THEN Answer(table, ValidationFailure, <<>>)
    ELSE IF conditional /\ id \notin DOMAIN table
         THEN Answer(table, ConditionalCheckFailed, <<>>)
    ELSE LET values == marshall(assignments)
             old    == IF id \in DOMAIN table THEN table[id] ELSE marshall([id |-> id])
             allNew == [f \in DOMAIN old \cup DOMAIN values |->
                           IF f \in DOMAIN values THEN values[f] ELSE old[f]]
         IN  Answer([k \in DOMAIN table \cup {id} |->
                        IF k = id THEN allNew ELSE table[k]],
                    "", <<unmarshall(allNew)>>)

\* DeleteCommand { Key: { id }, ConditionExpression: attribute_exists(id) }
DeleteCommand(table, id, conditional, fault) ==
    IF fault THEN Answer(table, ServiceFailure, <<>>)
    ELSE IF conditional /\ id \notin DOMAIN table
         THEN Answer(table, ConditionalCheckFailed, <<>>)
    ELSE Answer([k \in DOMAIN table \ {id} |-> table[k]], "", <<>>)

\* the enumerations of the keys of a set: the orders in which the store may
\* walk a table
Orders(keys) ==
    {o \in [1..Cardinality(keys) -> keys] :
        \A i, j \in 1..Cardinality(keys) : i # j => o[i] # o[j]}

Min(a, b) == IF a <= b THEN a ELSE b

\* the answer to a Scan or Query: one page of items, and the key to resume
\* from when the page did not reach the end
PageAnswer(table, error, Items, LastEvaluatedKey) ==
    [table |-> table, error |-> error, Items |-> Items,
     LastEvaluatedKey |-> LastEvaluatedKey]

\* the items of a page: the stored items under the first n keys of walk that
\* are in keep, unmarshalled
PageOf(table, walk, n, keep) ==
    LET Kept(k) == k \in keep
        kept == SelectSeq(SubSeq(walk, 1, n), Kept)
    IN  [i \in 1..Len(kept) |-> unmarshall(table[kept[i]])]

\* ScanCommand { Limit?, FilterExpression? }.  Limit is <<>> when absent.
\* filter is <<>> or the pair <<attribute, value>> of the expression
\* "#f = :v"; it is applied to the items of the page after they are read.
\* order: the order in which the store walks the table.
ScanCommand(table, Limit, filter, order, fault) ==
    IF fault THEN PageAnswer(table, ServiceFailure, <<>>, <<>>)
    ELSE IF Limit # <<>> /\ Limit[1] < 1
         THEN PageAnswer(table, ValidationFailure, <<>>, <<>>)
    ELSE LET n == IF Limit = <<>> THEN Min(Len(order), PageItems)
                  ELSE Min(Len(order), Min(PageItems, Limit[1]))
             keep == IF filter = <<>> THEN DOMAIN table
                     ELSE {k \in DOMAIN table :
                              /\ filter[1] \in DOMAIN table[k]
                              /\ table[k][filter[1]] = convertToAttr(filter[2])}
         IN  PageAnswer(table, "", PageOf(table, order, n, keep),
                        IF n < Len(order) THEN <<order[n]>> ELSE <<>>)

\* QueryCommand { IndexName, KeyConditionExpression: #key = :value }.  The
\* store rejects an index it does not have, a key that is not the index's
\* partition key, and a key value that is not a string attribute.
QueryCommand(table, indexName, keyName, keyValue, order, fault) ==
    IF fault THEN PageAnswer(table, ServiceFailure, <<>>, <<>>)
    ELSE IF \/ indexName \notin DOMAIN GlobalSecondaryIndexes
            \/ GlobalSecondaryIndexes[indexName] # keyName
            \/ "NULL" \in DOMAIN convertToAttr(keyValue)
         THEN PageAnswer(table, ValidationFailure, <<>>, <<>>)
    ELSE LET InIndex(k) == /\ keyName \in DOMAIN table[k]
                           /\ table[k][keyName] = convertToAttr(keyValue)
             matching == SelectSeq(order, InIndex)
             n == Min(Len(matching), PageItems)
         IN  PageAnswer(table, "", PageOf(table, matching, n, DOMAIN table),
                        IF n < Len(matching) THEN <<matching[n]>> ELSE <<>>)

(***************************************************************************)
(* The logger.  A log entry is kept as its level, its message (the pieces  *)
(* of the template string) and its data: the id and the error string given *)
(* (each a sequence of at most one value).                                 *)
(***************************************************************************)
LOG_LEVEL_PRIORITY == [DEBUG |-> 0, INFO |-> 1, WARN |-> 2, ERROR |-> 3]

\* production configuration; INFO and ERROR entries pass either setting
isDevelopment == FALSE

currentLogLevel == IF isDevelopment THEN "DEBUG" ELSE "INFO"

shouldLog(level) ==
    LOG_LEVEL_PRIORITY[level] >= LOG_LEVEL_PRIORITY[currentLogLevel]

log(level, message, id, error) ==
    IF shouldLog(level)
    THEN <<[level |-> level, message |-> message, id |-> id, error |-> error]>>
    ELSE <<>>

(***************************************************************************)
(* The repository's methods.  Each yields the table afterwards, the        *)
(* commands sent to the store, the log entries written, and either the     *)
(* value returned (value, a sequence of objects: at most one for the       *)
(* methods returning an entity, <<>> being null or void) or the error      *)
(* thrown (thrown, a sequence of at most one error).                       *)
(***************************************************************************)
Returns(table, sent, value, logged) ==
    [table |-> table, sent |-> sent, value |-> value, thrown |-> <<>>,
     logged |-> logged]

Throws(table, sent, error, logged) ==
    [table |-> table, sent |-> sent, value |-> <<>>, thrown |-> <<error>>,
     logged |-> logged]

getById(table, id, fault) ==
    LET result == GetCommand(table, id, fault)
    IN  IF result.error = ""
        THEN Returns(result.table, <<"Get">>, result.output, <<>>)
        ELSE Throws(result.table, <<"Get">>,
                    DatabaseError(<<"Failed to retrieve ", entityName>>),
                    log("ERROR", <<"Failed to get ", entityName, " by ID">>,
                        <<id>>, <<result.error>>))

\* getByIdOrThrow without the absence check
getByIdOrThrow_unchecked(table, id, fault) ==
    getById(table, id, fault)

getByIdOrThrow(table, id, fault) ==
    LET item == getById(table, id, fault)
    IN  IF item.thrown = <<>> /\ item.value = <<>>
        THEN Throws(item.table, item.sent, NotFoundError(entityName, id), item.logged)
        ELSE item

getAll(table, limit, order, fault) ==
    LET Limit == IF limit # <<>> /\ limit[1] # 0 THEN limit ELSE <<>>
        result == ScanCommand(table, Limit, <<>>, order, fault)
    IN  IF result.error = ""
        THEN Returns(result.table, <<"Scan">>, result.Items, <<>>)
        ELSE Throws(result.table, <<"Scan">>,
                    DatabaseError(<<"Failed to retrieve ", entityName, " list">>),
                    log("ERROR", <<"Failed to scan ", entityName>>, <<>>,
                        <<result.error>>))

\* a catch block of create without the ConditionalCheckFailedException case
createFailure_one_signal(table, id, error) ==
    Throws(table, <<"Put">>,
           DatabaseError(<<"Failed to create ", entityName>>),
           log("ERROR", <<"Failed to create ", entityName>>, <<id>>, <<error>>))

\* what create's catch block does with a store error
createFailure(table, id, error) ==
    IF error = ConditionalCheckFailed
    THEN Throws(table, <<"Put">>,
                DatabaseError(<<entityName, " with this ID already exists">>), <<>>)
    ELSE Throws(table, <<"Put">>,
                DatabaseError(<<"Failed to create ", entityName>>),
                log("ERROR", <<"Failed to create ", entityName>>, <<id>>, <<error>>))

\* create writing without the attribute_not_exists(id) condition
create_unconditional(table, item, now, fault) ==
    LET itemWithTimestamps ==
            [f \in DOMAIN item \cup {"createdAt", "updatedAt"} |->
                IF f \in {"createdAt", "updatedAt"} THEN now ELSE item[f]]
        result == PutCommand(table, itemWithTimestamps, FALSE, fault)
    IN  IF result.error = ""
        THEN Returns(result.table, <<"Put">>, <<itemWithTimestamps>>,
                     log("INFO", <<"Created ", entityName>>, <<item.id>>, <<>>))
        ELSE createFailure(result.table, item.id, result.error)

\* create spreading the entity after the timestamps:
\* { createdAt: now, updatedAt: now, ...item }
create_caller_timestamps(table, item, now, fault) ==
    LET itemWithTimestamps ==
            [f \in DOMAIN item \cup {"createdAt", "updatedAt"} |->
                IF f \in DOMAIN item THEN item[f] ELSE now]
        result == PutCommand(table, itemWithTimestamps, TRUE, fault)
    IN  IF result.error = ""
        THEN Returns(result.table, <<"Put">>, <<itemWithTimestamps>>,
                     log("INFO", <<"Created ", entityName>>, <<item.id>>, <<>>))
        ELSE createFailure(result.table, item.id, result.error)

create(table, item, now, fault) ==
    LET itemWithTimestamps ==
            [f \in DOMAIN item \cup {"createdAt", "updatedAt"} |->
                IF f \in {"createdAt", "updatedAt"} THEN now ELSE item[f]]
        result == PutCommand(table, itemWithTimestamps, TRUE, fault)
    IN  IF result.error = ""
        THEN Returns(result.table, <<"Put">>, <<itemWithTimestamps>>,
                     log("INFO", <<"Created ", entityName>>, <<item.id>>, <<>>))
        ELSE createFailure(result.table, item.id, result.error)

\* what update does with the store's answer to its UpdateCommand
updateOutcome(result, id) ==
    IF result.error = ""
    THEN Returns(result.table, <<"Update">>, result.output,
                 log("INFO", <<"Updated ", entityName>>, <<id>>, <<>>))
    ELSE IF result.error = ConditionalCheckFailed
    THEN Throws(result.table, <<"Update">>, NotFoundError(entityName, id), <<>>)
    ELSE Throws(result.table, <<"Update">>,
                DatabaseError(<<"Failed to update ", entityName>>),
                log("ERROR", <<"Failed to update ", entityName>>, <<id>>,
                    <<result.error>>))

\* update writing without the attribute_exists(id) condition
update_unconditional(table, id, updates, now, fault) ==
    LET assignments ==
            [f \in (DOMAIN updates \cup {"updatedAt"}) \ {"id"} |->
                IF f = "updatedAt" THEN now ELSE updates[f]]
    IN  updateOutcome(UpdateCommand(table, id, assignments, FALSE, fault), id)

\* update without the guard that skips the id key
update_sets_id(table, id, updates, now, fault) ==
    LET assignments ==
            [f \in DOMAIN updates \cup {"updatedAt"} |->
                IF f = "updatedAt" THEN now ELSE updates[f]]
    IN  updateOutcome(UpdateCommand(table, id, assignments, TRUE, fault), id)

\* update spreading the payload after the timestamp: { updatedAt: now, ...updates }
update_caller_timestamp_wins(table, id, updates, now, fault) ==
    LET assignments ==
            [f \in (DOMAIN updates \cup {"updatedAt"}) \ {"id"} |->
                IF f \in DOMAIN updates THEN updates[f] ELSE now]
    IN  updateOutcome(UpdateCommand(table, id, assignments, TRUE, fault), id)

\* update asking for ReturnValues: ALL_OLD: it returns the record as it was
update_returns_old(table, id, updates, now, fault) ==
    LET assignments ==
            [f \in (DOMAIN updates \cup {"updatedAt"}) \ {"id"} |->
                IF f = "updatedAt" THEN now ELSE updates[f]]
        result == UpdateCommand(table, id, assignments, TRUE, fault)
    IN  IF result.error = ""
        THEN Returns(result.table, <<"Update">>, <<unmarshall(table[id])>>,
                     log("INFO", <<"Updated ", entityName>>, <<id>>, <<>>))
        ELSE updateOutcome(result, id)

\* update taking the key from the payload when the payload names an id
update_payload_key(table, id, updates, now, fault) ==
    LET key == IF "id" \in DOMAIN updates THEN updates.id ELSE id
        assignments ==
            [f \in (DOMAIN updates \cup {"updatedAt"}) \ {"id"} |->
                IF f = "updatedAt" THEN now ELSE updates[f]]
    IN  updateOutcome(UpdateCommand(table, key, assignments, TRUE, fault), id)

\* update writing the record anew from the key and the payload (a put),
\* where the code sends a SET of the payload's fields
update_overwriting(table, id, updates, now, fault) ==
    LET Item == [f \in DOMAIN updates \cup {"id", "updatedAt"} |->
                    IF f = "id" THEN id ELSE IF f = "updatedAt" THEN now
                    ELSE updates[f]]
        result == PutCommand(table, Item, FALSE, fault)
    IN  IF ~fault /\ id \notin DOMAIN table
        THEN updateOutcome(Answer(table, ConditionalCheckFailed, <<>>), id)
        ELSE updateOutcome(Answer(result.table, result.error, <<Item>>), id)

update(table, id, updates, now, fault) ==
    LET updatesWithTimestamp ==
            [f \in DOMAIN updates \cup {"updatedAt"} |->
                IF f = "updatedAt" THEN now ELSE updates[f]]
        \* the entries that get a SET assignment: every key but id
        updateExpressionParts == DOMAIN updatesWithTimestamp \ {"id"}
        assignments == [f \in updateExpressionParts |-> updatesWithTimestamp[f]]
    IN  IF updateExpressionParts = {}
        THEN getByIdOrThrow(table, id, fault)
        ELSE updateOutcome(UpdateCommand(table, id, assignments, TRUE, fault), id)

\* what delete does with the store's answer to its DeleteCommand
deleteOutcome(result, id) ==
    IF result.error = ""
    THEN Returns(result.table, <<"Delete">>, <<>>,
                 log("INFO", <<"Deleted ", entityName>>, <<id>>, <<>>))
    ELSE IF result.error = ConditionalCheckFailed
    THEN Throws(result.table, <<"Delete">>, NotFoundError(entityName, id), <<>>)
    ELSE Throws(result.table, <<"Delete">>,
                DatabaseError(<<"Failed to delete ", entityName>>),
                log("ERROR", <<"Failed to delete ", entityName>>, <<id>>,
                    <<result.error>>))

\* delete sending its command without the attribute_exists(id) condition
delete_unconditional(table, id, fault) ==
    deleteOutcome(DeleteCommand(table, id, FALSE, fault), id)

\* delete writing its "Deleted" entry before the command is sent
delete_logging_first(table, id, fault) ==
    LET r == deleteOutcome(DeleteCommand(table, id, TRUE, fault), id)
    IN  [r EXCEPT !.logged =
            log("INFO", <<"Deleted ", entityName>>, <<id>>, <<>>)
                \o (IF r.thrown = <<>> THEN <<>> ELSE r.logged)]

\* delete sending its command a second time when the first round trip fails
delete_resending(table, id, fault) ==
    LET first == DeleteCommand(table, id, TRUE, fault)
    IN  IF first.error \in {"", ConditionalCheckFailed}
        THEN deleteOutcome(first, id)
        ELSE LET again == deleteOutcome(DeleteCommand(first.table, id, TRUE, FALSE), id)
             IN  [again EXCEPT !.sent = <<"Delete", "Delete">>]

delete(table, id, fault) ==
    deleteOutcome(DeleteCommand(table, id, TRUE, fault), id)

\* queryByIndex without its try/catch: the store's exception escapes as it is
queryByIndex_uncaught(table, indexName, keyName, keyValue, order, fault) ==
    LET result == QueryCommand(table, indexName, keyName, keyValue, order, fault)
    IN  IF result.error = ""
        THEN Returns(result.table, <<"Query">>, result.Items, <<>>)
        ELSE Throws(result.table, <<"Query">>,
                    [name |-> result.error, message |-> <<result.error>>], <<>>)

queryByIndex(table, indexName, keyName, keyValue, order, fault) ==
    LET result == QueryCommand(table, indexName, keyName, keyValue, order, fault)
    IN  IF result.error = ""
        THEN Returns(result.table, <<"Query">>, result.Items, <<>>)
        ELSE Throws(result.table, <<"Query">>,
                    DatabaseError(<<"Failed to query ", entityName>>),
                    log("ERROR", <<"Failed to query ", entityName, " by index">>,
                        <<>>, <<result.error>>))

\* filter: the pair <<attribute, value>> of the filter expression "#f = :v"
scanWithFilter(table, filter, order, fault) ==
    LET result == ScanCommand(table, <<>>, filter, order, fault)
    IN  IF result.error = ""
        THEN Returns(result.table, <<"Scan">>, result.Items, <<>>)
        ELSE Throws(result.table, <<"Scan">>,
                    DatabaseError(<<"Failed to filter ", entityName>>),
                    log("ERROR", <<"Failed to scan ", entityName, " with filter">>,
                        <<>>, <<result.error>>))

(***************************************************************************)
(* Inputs.                                                                 *)
(***************************************************************************)
\* objects over the given optional keys, on top of the fixed part base
Optional(base, field, values) ==
    base \cup {[f \in DOMAIN b \cup {field} |-> IF f = field THEN v ELSE b[f]] :
                  b \in base, v \in values}

\* entities handed to create: an id, and any of name and category
NewItems ==
    Optional(Optional({[id |-> i] : i \in Ids}, "name", NameValues),
             "category", CategoryValues)

\* partial payloads handed to update: any subset of id, name, createdAt and
\* updatedAt (category is the attribute only creation sets)
Payloads ==
    Optional(Optional(Optional(Optional({<<>>},
        "id", Ids), "name", NameValues),
        "createdAt", CallerTimestamps), "updatedAt", CallerTimestamps)

\* limits handed to getAll: none, or a number
Limits == {<<>>} \cup {<<n>> : n \in 0..MaxLimit}

\* index lookups: the category index by a category, by the empty string, and
\* an index the table does not have
IndexQueries ==
    {<<"category-index", "category", v>> : v \in {"x", "y", ""}}
        \cup {<<"name-index", "name", "a">>}

\* filters handed to scanWithFilter
Filters == {<<"category", v>> : v \in {"x", "y"}} \cup {<<"name", "a">>}

(***************************************************************************)
(* Actions: one repository call each.                                      *)
(***************************************************************************)
Record(op, id, input, fault, r) ==
    /\ store' = r.table
    /\ call' = [op |-> op, id |-> id,
                inputId |-> IF "id" \in DOMAIN input THEN input.id ELSE "",
                fault |-> fault, now |-> toISOString(clock),
                sent |-> r.sent, value |-> r.value, thrown |-> r.thrown,
                logged |-> r.logged]

Done(op, id, input, fault, r) ==
    /\ Record(op, id, input, fault, r)
    /\ UNCHANGED <<clock, flight, built, frontend>>

\* no update expression built yet
NotBuilt == [made |-> FALSE]

\* the second parameter of useAsync, its default in every use
immediate == TRUE

ROUTES ==
    [HOME |-> "/", STORE |-> "/store", SERVICES |-> "/services",
     DASHBOARD |-> "/dashboard", AI_ASSISTANT |-> "/ai-assistant",
     LOGIN |-> "/login", SIGNUP |-> "/signup"]

NoCall ==
    [op |-> "none", id |-> "", inputId |-> "", fault |-> FALSE,
     now |-> toISOString(0), sent |-> <<>>, value |-> <<>>, thrown |-> <<>>,
     logged |-> <<>>]

Init ==
    /\ store = <<>>
    /\ clock = 0
    /\ call = NoCall
    /\ flight = [c \in Callers |-> Idle]
    /\ built = NotBuilt
    /\ hook = [data |-> Null, loading |-> immediate, error |-> Null]
    /\ effect = "pending"
    /\ fetches = <<>>
    /\ auth = [user |-> Null, loading |-> TRUE]
    /\ location = [pathname |-> ROUTES.HOME, state |-> <<>>]

Tick ==
    /\ clock < MaxClock
    /\ clock' = clock + 1
    /\ UNCHANGED <<store, call, flight, built, frontend>>

GetById ==
    \E id \in Ids, fault \in BOOLEAN :
        Done("getById", id, <<>>, fault, getById(store, id, fault))

GetByIdOrThrow ==
    \E id \in Ids, fault \in BOOLEAN :
        Done("getByIdOrThrow", id, <<>>, fault, getByIdOrThrow(store, id, fault))

Create ==
    \E item \in NewItems, fault \in BOOLEAN :
        Done("create", item.id, item, fault,
             create(store, item, toISOString(clock), fault))

Update ==
    \E id \in Ids, updates \in Payloads, fault \in BOOLEAN :
        Done("update", id, updates, fault,
             update(store, id, updates, toISOString(clock), fault))

Delete ==
    \E id \in Ids, fault \in BOOLEAN :
        Done("delete", id, <<>>, fault, delete(store, id, fault))

GetAll ==
    \E limit \in Limits, order \in Orders(DOMAIN store), fault \in BOOLEAN :
        Done("getAll", "", <<>>, fault, getAll(store, limit, order, fault))

QueryByIndex ==
    \E q \in IndexQueries, order \in Orders(DOMAIN store), fault \in BOOLEAN :
        Done("queryByIndex", "", <<>>, fault,
             queryByIndex(store, q[1], q[2], q[3], order, fault))

ScanWithFilter ==
    \E filter \in Filters, order \in Orders(DOMAIN store), fault \in BOOLEAN :
        Done("scanWithFilter", "", <<>>, fault,
             scanWithFilter(store, filter, order, fault))

Next ==
    \/ Tick
    \/ GetById
    \/ GetByIdOrThrow
    \/ Create
    \/ Update
    \/ Delete

Spec == Init /\ [][Next]_vars

(***************************************************************************)
(* ListingSpec: every operation of the repository, the listing ones        *)
(* (getAll, queryByIndex, scanWithFilter) included, over entities of two   *)
(* categories.  To keep the table small the entities created carry a       *)
(* category or nothing, and updates set the name.                          *)
(***************************************************************************)
ListedCategories == CategoryValues \cup {"y"}

ListedItems ==
    Optional({[id |-> i] : i \in Ids}, "category", ListedCategories)

ListedPayloads == {[name |-> "a"], [name |-> ""]}

CreateListed ==
    \E item \in ListedItems, fault \in BOOLEAN :
        Done("create", item.id, item, fault,
             create(store, item, toISOString(clock), fault))

UpdateListed ==
    \E id \in Ids, updates \in ListedPayloads, fault \in BOOLEAN :
        Done("update", id, updates, fault,
             update(store, id, updates, toISOString(clock), fault))

ListingNext ==
    \/ Tick
    \/ GetById
    \/ GetByIdOrThrow
    \/ GetAll
    \/ CreateListed
    \/ UpdateListed
    \/ Delete
    \/ QueryByIndex
    \/ ScanWithFilter

ListingSpec == Init /\ [][ListingNext]_vars

(***************************************************************************)
(* ConcSpec: calls on one id issued by several callers at once.  A call    *)
(* reads the clock when it is issued (Start); its command reaches the      *)
(* store later (Apply), in any order with the commands of the other        *)
(* callers; the store applies one command at a time, or the round trip     *)
(* fails and the command is not applied.  Each caller issues               *)
(* one call.  Before any of them the table is empty or holds the record of *)
(* one earlier create (Seed).                                              *)
(***************************************************************************)
SeedItem == [id |-> "p1", name |-> "a", category |-> "x"]

\* the entities the callers create; the second carries timestamps of its own
ConcItems ==
    {[id |-> "p1", name |-> "a"]}
        \cup {[id |-> "p1", category |-> "z", createdAt |-> t, updatedAt |-> t] :
                 t \in CallerTimestamps}

\* the payloads the callers update with
ConcPayloads == {[name |-> "b"], [name |-> "c"], [category |-> "y"]}

\* the calls a caller may issue: operation, id argument, object argument
ConcCalls ==
    {<<"create", item.id, item>> : item \in ConcItems}
        \cup {<<"update", "p1", updates>> : updates \in ConcPayloads}
        \cup {<<"delete", "p1", <<>>>>}

Seed ==
    /\ call = NoCall
    /\ \A c \in Callers : flight[c] = Idle
    /\ Done("create", SeedItem.id, SeedItem, FALSE,
            create(store, SeedItem, toISOString(clock), FALSE))

\* saw: whether the record was stored when the call was issued
Start(c) ==
    /\ flight[c] = Idle
    /\ \E k \in ConcCalls :
          flight' = [flight EXCEPT ![c] =
                        [phase |-> "sent", op |-> k[1], id |-> k[2], input |-> k[3],
                         now |-> toISOString(clock), saw |-> k[2] \in DOMAIN store]]
    /\ UNCHANGED <<store, clock, call, built, frontend>>

\* the method of a call in flight, run against the table its command finds
Perform(f, table, fault) ==
    CASE f.op = "create" -> create(table, f.input, f.now, fault)
      [] f.op = "update" -> update(table, f.id, f.input, f.now, fault)
      [] f.op = "delete" -> delete(table, f.id, fault)

Apply(c) ==
    /\ flight[c].phase = "sent"
    /\ \E fault \in BOOLEAN :
          LET r == Perform(flight[c], store, fault)
          IN  /\ store' = r.table
              /\ flight' = [flight EXCEPT ![c] =
                               [phase |-> "done", op |-> flight[c].op,
                                id |-> flight[c].id, input |-> flight[c].input,
                                now |-> flight[c].now, saw |-> flight[c].saw,
                                fault |-> fault, thrown |-> r.thrown]]
    /\ UNCHANGED <<clock, call, built, frontend>>

ConcNext ==
    \/ Tick
    \/ Seed
    \/ \E c \in Callers : Start(c)
    \/ \E c \in Callers : Apply(c)

ConcSpec == Init /\ [][ConcNext]_vars

(***************************************************************************)
(* ExprSpec: the update expression.  A JavaScript object keeps its keys in *)
(* insertion order; an update is given its payload together with that      *)
(* order (keys).  The expression text is kept as the sequence of its       *)
(* pieces: "SET ", a name placeholder, " = ", a value placeholder, ", ",   *)
(* and so on.                                                              *)
(***************************************************************************)
\* Object.entries({ ...updates, updatedAt: now }): the payload's entries in
\* insertion order, updatedAt keeping its place when the payload has it and
\* coming last otherwise, with the clock reading as its value either way
updatesWithTimestamp_appending(updates, keys, now) ==
    LET all == Append(keys, "updatedAt")
    IN  [i \in 1..Len(all) |->
            <<all[i], IF i = Len(all) THEN now ELSE updates[all[i]]>>]

updatesWithTimestamp(updates, keys, now) ==
    LET all == IF "updatedAt" \in DOMAIN updates THEN keys
               ELSE Append(keys, "updatedAt")
    IN  [i \in 1..Len(all) |->
            <<all[i], IF all[i] = "updatedAt" THEN now ELSE updates[all[i]]>>]

\* the text "SET " followed by the parts joined with ", "
UpdateExpression(updateExpressionParts) ==
    [k \in 1..(4 * Len(updateExpressionParts)) |->
        LET part == updateExpressionParts[((k - 1) \div 4) + 1]
            piece == (k - 1) % 4
        IN  CASE piece = 0 -> (IF k = 1 THEN "SET " ELSE ", ")
              [] piece = 1 -> part.name
              [] piece = 2 -> " = "
              [] piece = 3 -> part.value]

\* the loop writing the field's own name into the expression text
buildUpdateExpression_raw_names(entries) ==
    LET Kept(i) == entries[i][1] # "id"
        kept == SelectSeq([i \in 1..Len(entries) |-> i], Kept)
        updateExpressionParts ==
            [j \in 1..Len(kept) |->
                [name |-> entries[kept[j]][1],
                 value |-> ":val" \o ToString(kept[j] - 1)]]
    IN  [updateExpressionParts |-> updateExpressionParts,
         expressionAttributeNames
         |-> [n \in {"#attr" \o ToString(kept[j] - 1) : j \in 1..Len(kept)} |->
                 LET j == CHOOSE j \in 1..Len(kept) :
                              n = "#attr" \o ToString(kept[j] - 1)
                 IN  entries[kept[j]][1]],
         expressionAttributeValues
         |-> [v \in {":val" \o ToString(kept[j] - 1) : j \in 1..Len(kept)} |->
                 LET j == CHOOSE j \in 1..Len(kept) :
                              v = ":val" \o ToString(kept[j] - 1)
                 IN  entries[kept[j]][2]],
         UpdateExpression |-> UpdateExpression(updateExpressionParts)]

\* the forEach over the entries: index is the entry's position (from 0) among
\* all entries, the skipped id entry included
buildUpdateExpression(entries) ==
    LET Kept(i) == entries[i][1] # "id"
        kept == SelectSeq([i \in 1..Len(entries) |-> i], Kept)
        updateExpressionParts ==
            [j \in 1..Len(kept) |->
                [name |-> "#attr" \o ToString(kept[j] - 1),
                 value |-> ":val" \o ToString(kept[j] - 1)]]
    IN  [updateExpressionParts |-> updateExpressionParts,
         expressionAttributeNames
         |-> [n \in {"#attr" \o ToString(kept[j] - 1) : j \in 1..Len(kept)} |->
                 LET j == CHOOSE j \in 1..Len(kept) :
                              n = "#attr" \o ToString(kept[j] - 1)
                 IN  entries[kept[j]][1]],
         expressionAttributeValues
         |-> [v \in {":val" \o ToString(kept[j] - 1) : j \in 1..Len(kept)} |->
                 LET j == CHOOSE j \in 1..Len(kept) :
                              v = ":val" \o ToString(kept[j] - 1)
                 IN  entries[kept[j]][2]],
         UpdateExpression |-> UpdateExpression(updateExpressionParts)]

\* the assignments the store reads from an expression: for each attribute
\* named by a part, the value of the last part naming it
Assignments(expression) ==
    LET parts == expression.updateExpressionParts
        Named(j) == IF parts[j].name \in DOMAIN expression.expressionAttributeNames
                    THEN expression.expressionAttributeNames[parts[j].name]
                    ELSE parts[j].name
    IN  [f \in {Named(j) : j \in 1..Len(parts)} |->
            LET last == CHOOSE j \in 1..Len(parts) :
                            /\ Named(j) = f
                            /\ \A k \in 1..Len(parts) : Named(k) = f => k <= j
            IN  expression.expressionAttributeValues[parts[last].value]]

\* payloads of the expression: any subset of id, name, createdAt, updatedAt
ExprPayloads ==
    Optional(Optional(Optional(Optional({<<>>},
        "id", {"p2"}), "name", {"a"}),
        "createdAt", CallerTimestamps), "updatedAt", CallerTimestamps)

\* the entity the expressions' updates act on
ExprItems == {[id |-> "p1"], [id |-> "p1", name |-> "b"]}

CreateKeyed ==
    \E item \in ExprItems :
        Done("create", item.id, item, FALSE,
             create(store, item, toISOString(clock), FALSE))

UpdateBuilt ==
    \E id \in Ids, updates \in ExprPayloads :
        \E keys \in Orders(DOMAIN updates) :
            /\ Record("update", id, updates, FALSE,
                      update(store, id, updates, toISOString(clock), FALSE))
            /\ built' = [made |-> TRUE, updates |-> updates, keys |-> keys,
                         now |-> toISOString(clock),
                         expression |->
                             buildUpdateExpression(
                                 updatesWithTimestamp(updates, keys,
                                                      toISOString(clock)))]
            /\ UNCHANGED <<clock, flight, frontend>>

ExprNext ==
    \/ Tick
    \/ CreateKeyed
    \/ UpdateBuilt

ExprSpec == Init /\ [][ExprNext]_vars

(***************************************************************************)
(* FrontSpec: the frontend.  One useAsync hook: execute sets loading and   *)
(* clears error, calls asyncFn and awaits it; when the promise settles the *)
(* rest of execute runs in one piece.  execute is invoked by the mount     *)
(* effect and by refetch, also while an earlier invocation is awaiting.    *)
(* ProtectedRoute reads the user and the loading flag of the auth context, *)
(* which change from outside, and the router's location.                   *)
(***************************************************************************)
backend == <<store, clock, call, flight, built>>

\* values asyncFn resolves with
Results == {"r1", "r2"}

\* what asyncFn rejects with: an Error with its message, or another value
NoError == [isError |-> FALSE, message |-> ""]

Rejections == {[isError |-> TRUE, message |-> "boom"], NoError}

\* execute, up to the await
executeStart(h) == [h EXCEPT !.loading = TRUE, !.error = Null]

\* execute, after the await returned result: try, finally
executeResolved(h, result) == [h EXCEPT !.data = result, !.loading = FALSE]

\* execute without its finally block
executeRejected_no_finally(h, err) ==
    [h EXCEPT !.error = IF err.isError THEN err.message ELSE "Failed to fetch data"]

\* execute, after the await threw err: catch, finally
executeRejected(h, err) ==
    [h EXCEPT !.error = IF err.isError THEN err.message ELSE "Failed to fetch data",
              !.loading = FALSE]

Pending == {i \in 1..Len(fetches) : fetches[i].status = "pending"}

\* alone: no earlier invocation was awaiting when this one started
StartFetch ==
    /\ Len(fetches) < MaxFetches
    /\ hook' = executeStart(hook)
    /\ fetches' = Append(fetches, [status |-> "pending", alone |-> Pending = {},
                                    result |-> Null, err |-> NoError])

\* useEffect(() => { if (immediate) execute() })
Mount ==
    /\ effect = "pending"
    /\ effect' = "ran"
    /\ IF immediate THEN StartFetch ELSE UNCHANGED <<hook, fetches>>
    /\ UNCHANGED <<auth, location, backend>>

\* refetch()
Refetch ==
    /\ effect = "ran"
    /\ StartFetch
    /\ UNCHANGED <<effect, auth, location, backend>>

Resolve(i) ==
    /\ fetches[i].status = "pending"
    /\ \E result \in Results :
          /\ hook' = executeResolved(hook, result)
          /\ fetches' = [fetches EXCEPT ![i].status = "resolved", ![i].result = result]
    /\ UNCHANGED <<effect, auth, location, backend>>

Reject(i) ==
    /\ fetches[i].status = "pending"
    /\ \E err \in Rejections :
          /\ hook' = executeRejected(hook, err)
          /\ fetches' = [fetches EXCEPT ![i].status = "rejected", ![i].err = err]
    /\ UNCHANGED <<effect, auth, location, backend>>

Users == {"u1"}

\* ProtectedRoute without the loading branch
ProtectedRoute_not_waiting(user, loading, loc, children) ==
    IF user = Null
    THEN [kind |-> "Navigate", to |-> ROUTES.LOGIN, state |-> [from |-> loc],
          replace |-> TRUE]
    ELSE [kind |-> "children", children |-> children]

\* the element ProtectedRoute returns
ProtectedRoute(user, loading, loc, children) ==
    IF loading THEN [kind |-> "Loader2"]
    ELSE IF user = Null
    THEN [kind |-> "Navigate", to |-> ROUTES.LOGIN, state |-> [from |-> loc],
          replace |-> TRUE]
    ELSE [kind |-> "children", children |-> children]

\* the element the router shows at a location
AppRouter(loc, a) ==
    IF loc.pathname = ROUTES.DASHBOARD
    THEN ProtectedRoute(a.user, a.loading, loc, "Dashboard")
    ELSE [kind |-> "page", pathname |-> loc.pathname]

\* the auth context changes
AuthChange ==
    /\ \E user \in Users \cup {Null}, loading \in BOOLEAN :
          /\ auth' = [user |-> user, loading |-> loading]
          /\ user # auth.user \/ loading # auth.loading
    /\ UNCHANGED <<hook, effect, fetches, location, backend>>

\* the user follows a link
Go ==
    /\ \E key \in DOMAIN ROUTES :
          location' = [pathname |-> ROUTES[key], state |-> <<>>]
    /\ UNCHANGED <<hook, effect, fetches, auth, backend>>

\* <Navigate to state replace />
Redirect ==
    /\ LET element == AppRouter(location, auth)
       IN  /\ element.kind = "Navigate"
           /\ location' = [pathname |-> element.to, state |-> element.state]
    /\ UNCHANGED <<hook, effect, fetches, auth, backend>>

FrontNext ==
    \/ Mount
    \/ Refetch
    \/ \E i \in 1..Len(fetches) : Resolve(i)
    \/ \E i \in 1..Len(fetches) : Reject(i)
    \/ AuthChange
    \/ Go
    \/ Redirect

FrontSpec == Init /\ [][FrontNext]_vars

(***************************************************************************)
(* Properties.  A property about a call is stated for every call that can  *)
(* be issued in a reachable state: the method is applied to the current    *)
(* table and clock reading.  Unless it says otherwise it is about calls    *)
(* whose round trip to the store does not fail (fault = FALSE).            *)
(***************************************************************************)
Now == toISOString(clock)

DuplicateError == DatabaseError(<<entityName, " with this ID already exists">>)

\* C1: create on an id that is not stored succeeds and stores the record;
\* create on an id that is stored (a second create, no delete in between)
\* throws the DatabaseError "... with this ID already exists" and leaves the
\* table, hence the record of the first create with its timestamps, exactly
\* as it was.
C1_CreateUniqueness ==
    \A item \in NewItems :
        LET r == create(store, item, Now, FALSE)
        IN  IF item.id \in DOMAIN store
            THEN r.thrown = <<DuplicateError>> /\ r.table = store
            ELSE r.thrown = <<>> /\ item.id \in DOMAIN r.table

\* a second create of a stored id has just been rejected as a duplicate
C1_Witness ==
    /\ call.op = "create"
    /\ call.thrown = <<DuplicateError>>
    /\ call.id \in DOMAIN store

\* C2: update on an id that is not stored, with any partial payload (the
\* empty one and the one holding only id included), throws NotFoundError and
\* leaves the table unchanged, with no record under that id; when the round
\* trip fails instead, the table is unchanged as well.
C2_UpdatePrecondition ==
    \A id \in Ids \ DOMAIN store, updates \in Payloads :
        /\ LET r == update(store, id, updates, Now, FALSE)
           IN  /\ r.thrown = <<NotFoundError(entityName, id)>>
               /\ r.table = store
               /\ id \notin DOMAIN r.table
        /\ update(store, id, updates, Now, TRUE).table = store

\* an update of an id that is not stored has just thrown NotFoundError
C2_Witness ==
    /\ call.op = "update"
    /\ call.id \notin DOMAIN store
    /\ call.thrown = <<NotFoundError(entityName, call.id)>>

\* C3: delete on an id that is not stored throws NotFoundError and leaves the
\* table unchanged.
C3_DeletePrecondition ==
    \A id \in Ids \ DOMAIN store :
        LET r == delete(store, id, FALSE)
        IN  /\ r.thrown = <<NotFoundError(entityName, id)>>
            /\ r.table = store

\* a delete of an id that is not stored has just thrown NotFoundError, while
\* another record is stored
C3_Witness ==
    /\ call.op = "delete"
    /\ call.id \notin DOMAIN store
    /\ call.thrown = <<NotFoundError(entityName, call.id)>>
    /\ DOMAIN store # {}

\* C4: every stored record's id attribute is the primary key it is stored
\* under; an update whose payload names another id succeeds, applies the other
\* payload fields, leaves the stored and returned id equal to the key, and
\* neither creates nor modifies a record under the id the payload names.
C4_IdImmutable ==
    /\ \A k \in DOMAIN store : store[k].id = [S |-> k]
    /\ \A id \in DOMAIN store, updates \in Payloads :
        ("id" \in DOMAIN updates /\ updates.id # id) =>
            LET r == update(store, id, updates, Now, FALSE)
                other == updates.id
            IN  /\ r.thrown = <<>>
                /\ r.table[id].id = [S |-> id]
                /\ r.value[1].id = id
                /\ DOMAIN r.table = DOMAIN store
                /\ other \in DOMAIN store => r.table[other] = store[other]
                /\ "name" \in DOMAIN updates =>
                       r.table[id].name = (IF updates.name = "" THEN [NULL |-> TRUE]
                                                                ELSE [S |-> updates.name])
                /\ "createdAt" \in DOMAIN updates =>
                       r.table[id].createdAt = [S |-> updates.createdAt]

\* an update whose payload named an id that is not stored has succeeded, and
\* no record exists under the named id
C4_Witness ==
    /\ call.op = "update"
    /\ call.thrown = <<>>
    /\ call.inputId \in Ids \ {call.id}
    /\ call.inputId \notin DOMAIN store
    /\ store[call.id].id = [S |-> call.id]

\* C5: for a stored id, update with the empty payload or with a payload
\* holding only id sends no write command to the store and returns the stored
\* entity with every field, updatedAt included, as it was before the call.
C5_EmptyUpdateShortCircuit ==
    \A id \in DOMAIN store, updates \in Payloads :
        DOMAIN updates \subseteq {"id"} =>
            LET r == update(store, id, updates, Now, FALSE)
            IN  /\ r.thrown = <<>>
                /\ \A i \in 1..Len(r.sent) : r.sent[i] = "Get"
                /\ r.table = store
                /\ r.value = <<unmarshall(store[id])>>

\* C6: a successful update, whatever its payload, leaves the stored createdAt
\* of the record as it was (so it stays the value create injected).
C6_CreatedAtImmutable ==
    \A id \in DOMAIN store, updates \in Payloads :
        LET r == update(store, id, updates, Now, FALSE)
        IN  r.thrown = <<>> => r.table[id].createdAt = store[id].createdAt

C8_RoundTrip ==
    (call.op = "create" /\ call.thrown = <<>>) =>
        LET g == getById(store, call.id, FALSE)
        IN  g.thrown = <<>> /\ g.value = call.value

\* C9 as stated: a successful update returns the stored post-update record, in
\* which every payload field other than id holds the supplied value, updatedAt
\* is the clock reading of the call, and every field the payload does not name
\* is as before.
C9_UpdateMergesAsSupplied ==
    \A id \in DOMAIN store, updates \in Payloads :
        LET r == update(store, id, updates, Now, FALSE)
        IN  /\ r.thrown = <<>>
            /\ r.value = <<unmarshall(r.table[id])>>
            /\ \A f \in DOMAIN updates \ {"id", "updatedAt"} :
                   r.value[1][f] = updates[f]
            /\ r.value[1].updatedAt = Now
            /\ \A f \in DOMAIN store[id] \ (DOMAIN updates \cup {"updatedAt"}) :
                   r.table[id][f] = store[id][f]

\* C9 (amended): a successful update returns the stored post-update record, in
\* which every payload field other than id holds the supplied value, except
\* that a supplied empty string is stored and returned as null; updatedAt is
\* the clock reading of the call, and every field the payload does not name is
\* as before.
C9_UpdateMerges ==
    \A id \in DOMAIN store, updates \in Payloads :
        LET r == update(store, id, updates, Now, FALSE)
        IN  /\ r.thrown = <<>>
            /\ r.value = <<unmarshall(r.table[id])>>
            /\ "name" \in DOMAIN updates =>
                   r.value[1].name = (IF updates.name = "" THEN Null ELSE updates.name)
            /\ "createdAt" \in DOMAIN updates =>
                   r.value[1].createdAt = updates.createdAt
            /\ r.value[1].updatedAt = Now
            /\ \A f \in DOMAIN store[id] \ (DOMAIN updates \cup {"updatedAt"}) :
                   r.table[id][f] = store[id][f]

\* an update has succeeded on a record that keeps the category it was created
\* with, and it returned the record as now stored, its name null
C9_Witness ==
    /\ call.op = "update"
    /\ call.thrown = <<>>
    /\ call.value = <<unmarshall(store[call.id])>>
    /\ "category" \in DOMAIN store[call.id]
    /\ "name" \in DOMAIN store[call.id]
    /\ call.value[1].name = Null
    /\ call.value[1].updatedAt # call.value[1].createdAt

\* C10: for an id that is not stored getById returns null without throwing and
\* getByIdOrThrow throws a NotFoundError carrying the entity name and the id;
\* for a stored id both return the stored entity.  Neither changes the table.
C10_GetSentinelOrThrow ==
    \A id \in Ids :
        LET g == getById(store, id, FALSE)
            t == getByIdOrThrow(store, id, FALSE)
        IN  /\ g.table = store /\ t.table = store
            /\ g.thrown = <<>>
            /\ IF id \in DOMAIN store
               THEN /\ g.value = <<unmarshall(store[id])>>
                    /\ t.thrown = <<>>
                    /\ t.value = g.value
               ELSE /\ g.value = <<>>
                    /\ Len(t.thrown) = 1
                    /\ t.thrown[1].name = "NotFoundError"
                    /\ t.thrown[1].details = <<entityName, id>>
                    /\ t.thrown[1].message = <<entityName, " with ID '", id, "' not found">>

\* getByIdOrThrow has just thrown NotFoundError for an id that is not stored,
\* while another record is stored
C10_Witness ==
    /\ call.op = "getByIdOrThrow"
    /\ call.id \notin DOMAIN store
    /\ Len(call.thrown) = 1
    /\ call.thrown[1].name = "NotFoundError"
    /\ call.thrown[1].details = <<entityName, call.id>>
    /\ DOMAIN store # {}

\* the set of the elements of a sequence
Range(seq) == {seq[i] : i \in 1..Len(seq)}

\* the stored entities, as a reader gets them
Entities == {unmarshall(store[k]) : k \in DOMAIN store}

\* C11: for every (non-empty) key value v, queryByIndex on the category index
\* returns exactly the stored entities whose category equals v, each once:
\* none missing, none with another value, and the empty sequence, not an
\* error, when nothing matches.
C11_QueryByIndexExact ==
    \A v \in ListedCategories, order \in Orders(DOMAIN store) :
        LET r == queryByIndex(store, "category-index", "category", v, order, FALSE)
            matches == {e \in Entities : "category" \in DOMAIN e /\ e.category = v}
        IN  /\ r.thrown = <<>>
            /\ Range(r.value) = matches
            /\ Len(r.value) = Cardinality(matches)

\* C20: getAll without a limit returns every stored entity and nothing else;
\* getAll with a limit returns at most limit entities, each of them stored;
\* neither changes the table.
C20_GetAll ==
    \A limit \in Limits, order \in Orders(DOMAIN store) :
        LET r == getAll(store, limit, order, FALSE)
        IN  /\ r.thrown = <<>>
            /\ r.table = store
            /\ IF limit = <<>>
               THEN Range(r.value) = Entities /\ Len(r.value) = Cardinality(Entities)
               ELSE Len(r.value) <= limit[1] /\ Range(r.value) \subseteq Entities

\* the error names an operation of the repository may raise
ApplicationErrors == {"NotFoundError", "DatabaseError"}

\* r ends in a return or in one of the application errors; when the round
\* trip to the store failed (fault) it ends in DatabaseError
Typed(r, fault) ==
    /\ r.thrown = <<>> \/ r.thrown[1].name \in ApplicationErrors
    /\ fault => r.thrown # <<>> /\ r.thrown[1].name = "DatabaseError"

\* C15: every operation of the repository, on every input and whether or not
\* the round trip to the store fails, either returns or raises NotFoundError
\* or DatabaseError, never the store's own exception; a failure of the store
\* (a failed round trip, a rejected query) is raised as DatabaseError, and
\* NotFoundError is raised only by getByIdOrThrow, update and delete for an
\* id that is not stored.
C15_TypedErrors ==
    /\ \A fault \in BOOLEAN :
        /\ \A id \in Ids :
            /\ Typed(getById(store, id, fault), fault)
            /\ Typed(getByIdOrThrow(store, id, fault), fault)
            /\ Typed(delete(store, id, fault), fault)
            /\ \A updates \in Payloads :
                   Typed(update(store, id, updates, Now, fault), fault)
        /\ \A item \in NewItems \cup ListedItems :
               Typed(create(store, item, Now, fault), fault)
        /\ \A order \in Orders(DOMAIN store) :
            /\ \A limit \in Limits : Typed(getAll(store, limit, order, fault), fault)
            /\ \A filter \in Filters :
                   Typed(scanWithFilter(store, filter, order, fault), fault)
            /\ \A q \in IndexQueries :
                   LET r == queryByIndex(store, q[1], q[2], q[3], order, fault)
                   IN  /\ Typed(r, fault)
                       /\ r.thrown # <<>> => r.thrown[1].name = "DatabaseError"
    /\ \A id \in Ids, updates \in Payloads :
           LET NotFound(r) == r.thrown # <<>> /\ r.thrown[1].name = "NotFoundError"
           IN  /\ NotFound(getByIdOrThrow(store, id, FALSE)) <=> id \notin DOMAIN store
               /\ NotFound(update(store, id, updates, Now, FALSE)) <=> id \notin DOMAIN store
               /\ NotFound(delete(store, id, FALSE)) <=> id \notin DOMAIN store
               /\ ~NotFound(getById(store, id, FALSE))

\* a query of the category index whose round trip failed, on a table holding
\* a record, has ended in a DatabaseError
C15_Witness ==
    /\ call.op = "queryByIndex"
    /\ call.fault
    /\ Len(call.thrown) = 1
    /\ call.thrown[1] = DatabaseError(<<"Failed to query ", entityName>>)
    /\ DOMAIN store # {}

CreateError == DatabaseError(<<"Failed to create ", entityName>>)

\* C16: create tells its two failure causes apart: when the store rejects the
\* write because the id is stored, create throws the DatabaseError
\* "... with this ID already exists"; when the round trip fails for any other
\* reason, whether or not the id is stored, it throws the DatabaseError
\* "Failed to create ..."; the two errors differ, and in both cases the table
\* is unchanged.
C16_CreateFailureCauses ==
    /\ DuplicateError # CreateError
    /\ \A item \in NewItems :
        /\ LET r == create(store, item, Now, TRUE)
           IN  r.thrown = <<CreateError>> /\ r.table = store
        /\ LET r == create(store, item, Now, FALSE)
           IN  /\ r.thrown # <<CreateError>>
               /\ r.thrown = <<DuplicateError>> <=> item.id \in DOMAIN store
               /\ r.thrown # <<>> => r.table = store

\* a create of a stored id whose round trip failed has ended in the generic
\* write failure, not in the duplicate-id error
C16_Witness ==
    /\ call.op = "create"
    /\ call.fault
    /\ call.id \in DOMAIN store
    /\ call.thrown = <<CreateError>>

\* C17: every call that ends in an error has written, before throwing, an
\* ERROR log entry carrying the id it was about and the underlying cause.
C17_FailuresLogged ==
    call.thrown # <<>> =>
        \E i \in 1..Len(call.logged) :
            /\ call.logged[i].level = "ERROR"
            /\ call.id # "" => call.logged[i].id = <<call.id>>
            /\ call.logged[i].error # <<>>

\* the number of write commands among the commands sent
Writes(sent) ==
    Cardinality({i \in 1..Len(sent) : sent[i] \in {"Put", "Update", "Delete"}})

\* r sent at most one write command and, when it ended in an error, left the
\* table as it was
SingleAttempt(r) ==
    /\ Writes(r.sent) <= 1
    /\ Len(r.sent) <= 1
    /\ r.thrown # <<>> => r.table = store

\* C18: create, update and delete never retry: each call, whether its write
\* succeeds, is rejected by its condition or fails in the round trip, sends at
\* most one command to the store; a failed write ends the call with an error
\* and the table as it was.
C18_NoRetry ==
    \A fault \in BOOLEAN :
        /\ \A item \in NewItems :
               LET r == create(store, item, Now, fault)
               IN  SingleAttempt(r) /\ (fault => r.thrown # <<>>)
        /\ \A id \in Ids :
            /\ LET r == delete(store, id, fault)
               IN  SingleAttempt(r) /\ (fault => r.thrown # <<>>)
            /\ \A updates \in Payloads :
                   LET r == update(store, id, updates, Now, fault)
                   IN  SingleAttempt(r) /\ (fault => r.thrown # <<>>)

\* a delete of a stored id whose round trip failed has ended in an error
\* after one command, and the record is still stored
C18_Witness ==
    /\ call.op = "delete"
    /\ call.fault
    /\ call.sent = <<"Delete">>
    /\ call.thrown = <<DatabaseError(<<"Failed to delete ", entityName>>)>>
    /\ call.id \in DOMAIN store

\* the concurrent calls the store has answered
Answered == {c \in Callers : flight[c].phase = "done"}

\* the record create stores for a call: the entity given, with both
\* timestamps the clock reading the call took
Created(f) ==
    marshall([a \in DOMAIN f.input \cup {"createdAt", "updatedAt"} |->
                 IF a \in {"createdAt", "updatedAt"} THEN f.now ELSE f.input[a]])

\* C12: when the table is empty and the calls answered so far are creates of
\* the same id, issued at once and applied in any order, then among those
\* whose round trip did not fail exactly one has succeeded, every other one
\* has thrown the duplicate-id DatabaseError, and the stored record is the
\* entity of the one that succeeded.
C12_ConcurrentCreate ==
    LET creators == {c \in Answered : ~flight[c].fault}
        winners  == {c \in creators : flight[c].thrown = <<>>}
    IN  (/\ call = NoCall
         /\ creators # {}
         /\ \A c \in Answered : flight[c].op = "create" /\ flight[c].id = "p1")
        => /\ Cardinality(winners) = 1
           /\ \A c \in creators \ winners : flight[c].thrown = <<DuplicateError>>
           /\ \A c \in winners : store = ("p1" :> Created(flight[c]))

\* every caller has created the same id, each issuing its call while the id
\* was not stored; one has succeeded and another, with a different entity,
\* has been rejected as a duplicate
C12_Witness ==
    /\ call = NoCall
    /\ Answered = Callers
    /\ \A c \in Callers :
           flight[c].op = "create" /\ ~flight[c].saw /\ ~flight[c].fault
    /\ \E w, l \in Callers :
           /\ flight[w].thrown = <<>>
           /\ flight[l].thrown = <<DuplicateError>>
           /\ flight[w].input # flight[l].input
           /\ store["p1"] = Created(flight[w])

\* C13: when the table holds the record of an earlier create and the calls
\* answered so far are updates of its id, applied in any order, then every one
\* whose round trip did not fail has succeeded, and in the stored record each
\* field some of them wrote holds the value one of its writers gave it (for a
\* field written once, that writer's value; never the value it had before),
\* updatedAt is the clock reading of one of them, and every other field is as
\* created.
C13_NoLostUpdate ==
    LET updaters == {c \in Answered : ~flight[c].fault}
        Writers(a) == {c \in updaters : a \in DOMAIN flight[c].input}
        written == UNION {DOMAIN flight[c].input : c \in updaters}
    IN  (/\ call.op = "create"
         /\ updaters # {}
         /\ \A c \in Answered : flight[c].op = "update" /\ flight[c].id = call.id)
        => /\ \A c \in updaters : flight[c].thrown = <<>>
           /\ call.id \in DOMAIN store
           /\ DOMAIN store[call.id] = DOMAIN call.value[1] \cup written
           /\ \A a \in written :
              /\ store[call.id][a] \in
                     {convertToAttr(flight[c].input[a]) : c \in Writers(a)}
              /\ store[call.id][a] # marshall(call.value[1])[a]
           /\ store[call.id].updatedAt \in {[S |-> flight[c].now] : c \in updaters}
           /\ \A a \in DOMAIN store[call.id] \ (written \cup {"updatedAt"}) :
                  store[call.id][a] = marshall(call.value[1])[a]

\* two callers have updated different fields of the same record and both
\* values are stored; the one that read the clock first reached the store
\* last (the stored updatedAt is its reading), so the two calls overlapped
C13_Witness ==
    \E c, d \in Callers :
        /\ Answered = Callers
        /\ \A e \in Callers : flight[e].op = "update" /\ flight[e].thrown = <<>>
        /\ flight[c].input = [name |-> "b"]
        /\ flight[d].input = [category |-> "y"]
        /\ store["p1"].name = [S |-> "b"]
        /\ store["p1"].category = [S |-> "y"]
        /\ flight[c].now # flight[d].now
        /\ IsoLeq(flight[c].now, flight[d].now)
        /\ store["p1"].updatedAt = [S |-> flight[c].now]

\* C14: an update never resurrects a deleted record: whenever the command of
\* an update reaches the store after a delete of the same id has succeeded and
\* the id is not stored, the update throws NotFoundError and the table stays
\* as it was, with no record under that id.
C14_NoResurrection ==
    [][\A d \in Callers :
          (/\ flight[d].phase = "sent"
           /\ flight'[d].phase = "done"
           /\ flight[d].op = "update"
           /\ ~flight'[d].fault
           /\ flight[d].id \notin DOMAIN store
           /\ \E c \in Answered :
                 /\ flight[c].op = "delete"
                 /\ flight[c].id = flight[d].id
                 /\ flight[c].thrown = <<>>)
          => /\ flight'[d].thrown = <<NotFoundError(entityName, flight[d].id)>>
             /\ store' = store
             /\ flight[d].id \notin DOMAIN store']_vars

\* an update issued while the record was stored has thrown NotFoundError,
\* a delete of the same id having succeeded in between; the id is not stored
C14_Witness ==
    \E c, d \in Callers :
        /\ flight[c].phase = "done" /\ flight[d].phase = "done"
        /\ flight[c].op = "delete" /\ flight[c].thrown = <<>>
        /\ flight[d].op = "update" /\ flight[d].saw /\ ~flight[d].fault
        /\ flight[d].thrown = <<NotFoundError(entityName, "p1")>>
        /\ "p1" \notin DOMAIN store

\* entities handed to create that may carry timestamps of their own
StampedItems ==
    Optional(Optional(NewItems, "createdAt", CallerTimestamps),
             "updatedAt", CallerTimestamps) \cup ConcItems

\* C19: a successful create, whatever createdAt and updatedAt the entity it
\* is given carries, stores and returns the entity with createdAt and
\* updatedAt both equal to the clock reading the call took.
C19_CreateTimestamps ==
    \A item \in StampedItems, t \in 0..clock :
        LET r == create(store, item, toISOString(t), FALSE)
        IN  r.thrown = <<>> =>
                /\ r.value[1].createdAt = toISOString(t)
                /\ r.value[1].updatedAt = toISOString(t)
                /\ r.table[item.id].createdAt = [S |-> toISOString(t)]
                /\ r.table[item.id].updatedAt = [S |-> toISOString(t)]

\* a create given an entity with timestamps of its own has succeeded at a
\* clock reading after the first, and the stored record carries that reading
\* in both timestamps, not the entity's own
C19_Witness ==
    \E c \in Answered :
        /\ flight[c].op = "create" /\ flight[c].thrown = <<>>
        /\ "createdAt" \in DOMAIN flight[c].input
        /\ flight[c].input.createdAt # flight[c].now
        /\ flight[c].now # toISOString(0)
        /\ store["p1"].createdAt = [S |-> flight[c].now]
        /\ store["p1"].updatedAt = [S |-> flight[c].now]
        /\ store["p1"].category = [S |-> "z"]

\* C21: delete succeeds exactly when the record is stored when its command
\* reaches the store; after a successful delete the id is not stored, getById
\* returns null, a second delete and every update throw NotFoundError, and a
\* create of the same id succeeds and stores the entity with both timestamps
\* the clock reading of that create.
C21_DeleteRemoves ==
    \A id \in Ids :
        LET d == delete(store, id, FALSE)
        IN  /\ d.thrown = <<>> <=> id \in DOMAIN store
            /\ d.thrown = <<>> =>
                /\ id \notin DOMAIN d.table
                /\ getById(d.table, id, FALSE).thrown = <<>>
                /\ getById(d.table, id, FALSE).value = <<>>
                /\ delete(d.table, id, FALSE).thrown = <<NotFoundError(entityName, id)>>
                /\ \A updates \in Payloads :
                       update(d.table, id, updates, Now, FALSE).thrown
                           = <<NotFoundError(entityName, id)>>
                /\ \A item \in ListedItems :
                       item.id = id =>
                           LET c == create(d.table, item, Now, FALSE)
                           IN  /\ c.thrown = <<>>
                               /\ id \in DOMAIN c.table
                               /\ c.table[id].createdAt = [S |-> Now]
                               /\ c.table[id].updatedAt = [S |-> Now]

\* a delete has succeeded at a later clock reading than the first, the id it
\* removed is not stored and the other record still is
C21_Witness ==
    /\ call.op = "delete"
    /\ call.thrown = <<>>
    /\ ~call.fault
    /\ call.now # toISOString(0)
    /\ call.id \notin DOMAIN store
    /\ DOMAIN store = Ids \ {call.id}

\* the number of INFO entries of a log with the given message and id
Events(logged, word, id) ==
    Cardinality({i \in 1..Len(logged) :
                    /\ logged[i].level = "INFO"
                    /\ logged[i].message = <<word, entityName>>
                    /\ logged[i].id = <<id>>})

\* the number of INFO entries of a log
InfoEntries(logged) ==
    Cardinality({i \in 1..Len(logged) : logged[i].level = "INFO"})

\* C22: a create (a delete) whose write succeeded has written exactly one
\* "Created" ("Deleted") entry, carrying the id, and the table holds the
\* effect of the write; a create or delete that fails, on its condition or in
\* the round trip, has written no such entry.
C22_SuccessEvents ==
    \A fault \in BOOLEAN :
        /\ \A item \in ListedItems \cup NewItems :
               LET r == create(store, item, Now, fault)
                   n == IF r.thrown = <<>> THEN 1 ELSE 0
               IN  /\ Events(r.logged, "Created ", item.id) = n
                   /\ InfoEntries(r.logged) = n
                   /\ r.thrown = <<>> => item.id \in DOMAIN r.table
        /\ \A id \in Ids :
               LET r == delete(store, id, fault)
                   n == IF r.thrown = <<>> THEN 1 ELSE 0
               IN  /\ Events(r.logged, "Deleted ", id) = n
                   /\ InfoEntries(r.logged) = n
                   /\ r.thrown = <<>> => id \notin DOMAIN r.table

\* a create has succeeded and its log is the one "Created" entry with its id
C22_Witness ==
    /\ call.op = "create"
    /\ call.thrown = <<>>
    /\ call.id \in DOMAIN store
    /\ call.logged = <<[level |-> "INFO", message |-> <<"Created ", entityName>>,
                        id |-> <<call.id>>, error |-> <<>>]>>

\* C23: a successful update with a non-empty payload returns a record whose
\* updatedAt is strictly later than its createdAt, also when the update is
\* issued at the clock reading of the create.
C23_UpdatedAfterCreated ==
    \A id \in DOMAIN store, updates \in Payloads :
        DOMAIN updates \ {"id"} # {} =>
            LET r == update(store, id, updates, Now, FALSE)
            IN  r.thrown = <<>> =>
                    ~IsoLeq(r.value[1].updatedAt, r.value[1].createdAt)

\* C24: of the errors a call throws, isOperationalError is true for
\* NotFoundError and for the duplicate-id error of create, and false for the
\* DatabaseError of a store failure.
C24_OperationalErrors ==
    call.thrown # <<>> =>
        (isOperationalError(call.thrown[1])
            <=> (\/ call.thrown[1].name = "NotFoundError"
                 \/ call.thrown[1] = DuplicateError))

\* the table restricted to the keys other than id
Others(table, id) == [k \in DOMAIN table \ {id} |-> table[k]]

\* C27: a create, update or delete given the id X, succeeding or failing,
\* leaves every record stored under another id as it was and adds none under
\* another id; getById, getByIdOrThrow, getAll, queryByIndex and
\* scanWithFilter leave the whole table as it was.
C27_Frame ==
    \A fault \in BOOLEAN :
        /\ \A item \in ListedItems \cup NewItems :
               Others(create(store, item, Now, fault).table, item.id)
                   = Others(store, item.id)
        /\ \A id \in Ids :
            /\ Others(delete(store, id, fault).table, id) = Others(store, id)
            /\ \A updates \in Payloads :
                   Others(update(store, id, updates, Now, fault).table, id)
                       = Others(store, id)
            /\ getById(store, id, fault).table = store
            /\ getByIdOrThrow(store, id, fault).table = store
        /\ \A order \in Orders(DOMAIN store) :
            /\ \A limit \in Limits : getAll(store, limit, order, fault).table = store
            /\ \A q \in IndexQueries :
                   queryByIndex(store, q[1], q[2], q[3], order, fault).table = store
            /\ \A filter \in Filters :
                   scanWithFilter(store, filter, order, fault).table = store

\* an update of one record has succeeded at a later clock reading while the
\* other record, created before, is stored with its timestamps and without
\* the field the update set
C27_Witness ==
    \E other \in DOMAIN store \ {call.id} :
        /\ call.op = "update"
        /\ call.thrown = <<>>
        /\ call.now # toISOString(0)
        /\ store[call.id].updatedAt = [S |-> call.now]
        /\ "name" \in DOMAIN store[call.id]
        /\ "name" \notin DOMAIN store[other]
        /\ store[other].updatedAt = [S |-> toISOString(0)]

\* the attribute names of an entity
FieldNames == {"id", "name", "category", "createdAt", "updatedAt"}

\* C25: the expression an update builds has one SET assignment for each
\* payload field other than id and one for updatedAt (one in all when the
\* payload carries updatedAt); its name placeholders are pairwise distinct and
\* so are its value placeholders; the name table maps each name placeholder
\* to its field and the value table maps the value placeholder paired with it
\* to that field's value; no piece of the expression text is a field name; and
\* the command the expression describes is the one update sends.
C25_UpdateExpression ==
    built.made =>
        LET e == built.expression
            parts == e.updateExpressionParts
            fields == (DOMAIN built.updates \ {"id"}) \cup {"updatedAt"}
            Field(j) == e.expressionAttributeNames[parts[j].name]
        IN  /\ Len(parts) = Cardinality(fields)
            /\ \A i, j \in 1..Len(parts) :
                   i # j => /\ parts[i].name # parts[j].name
                            /\ parts[i].value # parts[j].value
            /\ DOMAIN e.expressionAttributeNames
                   = {parts[j].name : j \in 1..Len(parts)}
            /\ DOMAIN e.expressionAttributeValues
                   = {parts[j].value : j \in 1..Len(parts)}
            /\ {Field(j) : j \in 1..Len(parts)} = fields
            /\ \A j \in 1..Len(parts) :
                   e.expressionAttributeValues[parts[j].value]
                       = (IF Field(j) = "updatedAt" THEN built.now
                          ELSE built.updates[Field(j)])
            /\ Len(e.UpdateExpression) = 4 * Len(parts)
            /\ \A k \in 1..Len(e.UpdateExpression) :
                   e.UpdateExpression[k] \notin FieldNames
            /\ \A id \in Ids :
                   updateOutcome(UpdateCommand(store, id, Assignments(e), TRUE, FALSE), id)
                       = update(store, id, built.updates, built.now, FALSE)

\* an update whose payload has id as its first key and three more fields,
\* updatedAt among them, has succeeded: its expression has three assignments,
\* the first with the placeholders of index 1
C25_Witness ==
    /\ built.made
    /\ call.op = "update"
    /\ call.thrown = <<>>
    /\ Len(built.keys) = 4
    /\ built.keys[1] = "id"
    /\ built.keys[4] = "name"
    /\ Len(built.expression.updateExpressionParts) = 3
    /\ built.expression.updateExpressionParts[1] = [name |-> "#attr1", value |-> ":val1"]
    /\ built.expression.expressionAttributeNames["#attr3"] = "name"
    /\ built.expression.expressionAttributeValues[":val3"] = "a"

\* C26: the expression of every update assigns updatedAt exactly once, the
\* clock reading of the call; after a successful update, also one whose
\* payload carries an updatedAt of its own, the stored and the returned
\* updatedAt are the clock reading of the call.
C26_UpdatedAtRefreshed ==
    /\ built.made =>
           LET e == built.expression
               parts == e.updateExpressionParts
               stamps == {j \in 1..Len(parts) :
                             /\ parts[j].name \in DOMAIN e.expressionAttributeNames
                             /\ e.expressionAttributeNames[parts[j].name] = "updatedAt"}
           IN  /\ Cardinality(stamps) = 1
               /\ \A j \in stamps :
                      e.expressionAttributeValues[parts[j].value] = built.now
    /\ (call.op = "update" /\ call.thrown = <<>>) =>
           /\ store[call.id].updatedAt = [S |-> call.now]
           /\ call.value[1].updatedAt = call.now
    /\ \A id \in DOMAIN store, updates \in ExprPayloads :
           LET r == update(store, id, updates, Now, FALSE)
           IN  /\ r.thrown = <<>>
               /\ r.table[id].updatedAt = [S |-> Now]
               /\ r.value[1].updatedAt = Now

\* an update whose payload carries an updatedAt of its own, as its first
\* key, has succeeded, and the stored updatedAt is the clock reading of the
\* call, not the payload's value
C26_Witness ==
    /\ built.made
    /\ call.op = "update"
    /\ call.thrown = <<>>
    /\ "updatedAt" \in DOMAIN built.updates
    /\ built.keys[1] = "updatedAt"
    /\ built.updates.updatedAt # built.now
    /\ store[call.id].updatedAt = [S |-> built.now]

\* C28: while an invocation of execute is awaiting, loading is true; and once
\* every invocation has settled, the last one started having resolved, data
\* is the result of the last one started.
C28_LatestFetchWins ==
    /\ Pending # {} => hook.loading
    /\ (/\ Pending = {}
        /\ fetches # <<>>
        /\ fetches[Len(fetches)].status = "resolved")
       => hook.data = fetches[Len(fetches)].result

\* every invocation of execute so far started while none was awaiting
Single == \A i \in 1..Len(fetches) : fetches[i].alone

\* C29: with one invocation of execute at a time: the step that starts one
\* sets loading and clears error; the step in which its promise settles
\* clears loading and either sets data to the result, error being null, or
\* sets error to a message and leaves data as it was; and loading is false
\* whenever every invocation has settled.
C29_SingleFetch ==
    [][Single' =>
        /\ Len(fetches') > Len(fetches) => hook'.loading /\ hook'.error = Null
        /\ \A i \in 1..Len(fetches) :
              (fetches[i].status = "pending" /\ fetches'[i].status # "pending") =>
                  /\ ~hook'.loading
                  /\ fetches'[i].status = "resolved" =>
                         /\ hook'.data = fetches'[i].result
                         /\ hook'.error = Null
                  /\ fetches'[i].status = "rejected" =>
                         /\ hook'.error # Null
                         /\ hook'.error = (IF fetches'[i].err.isError
                                           THEN fetches'[i].err.message
                                           ELSE "Failed to fetch data")
                         /\ hook'.data = hook.data
        /\ (fetches' # <<>> /\ \A i \in 1..Len(fetches') : fetches'[i].status # "pending")
              => ~hook'.loading]_vars

\* one at a time, a first invocation resolved and a later one was rejected
\* with a value that is not an Error: loading is false, error is the default
\* message and data is still the first result
C29_Witness ==
    /\ Single
    /\ Len(fetches) = 2
    /\ fetches[1].status = "resolved"
    /\ fetches[2].status = "rejected"
    /\ ~fetches[2].err.isError
    /\ hook = [data |-> fetches[1].result, loading |-> FALSE,
               error |-> "Failed to fetch data"]

\* C30: ProtectedRoute returns its children exactly when the auth context is
\* not loading and has a user; while loading it returns the loader, neither
\* children nor redirect; not loading and without a user it returns a
\* redirect to the login route whose state carries the current location.  So
\* the dashboard is shown only to a user, with loading over.
C30_ProtectedRoute ==
    /\ \A user \in Users \cup {Null}, loading \in BOOLEAN :
           LET element == ProtectedRoute(user, loading, location, "Dashboard")
           IN  /\ element.kind = "children" <=> (~loading /\ user # Null)
               /\ loading => element.kind = "Loader2"
               /\ (~loading /\ user = Null) =>
                      /\ element.kind = "Navigate"
                      /\ element.to = ROUTES.LOGIN
                      /\ element.state.from = location
    /\ AppRouter(location, auth).kind = "children" =>
           (~auth.loading /\ auth.user \in Users)

\* the router has been redirected to the login route from the dashboard,
\* the auth context having settled without a user
C30_Witness ==
    /\ location.pathname = ROUTES.LOGIN
    /\ DOMAIN location.state = {"from"}
    /\ location.state.from.pathname = ROUTES.DASHBOARD
    /\ auth = [user |-> Null, loading |-> FALSE]

====
